---- MODULE Spec2Model ----
(***************************************************************************)
(* ApiLimiter (src/Api_limiter_class.py): the quota-aware API call        *)
(* governor of Bloom and Sky.  One limiter instance, its ledger file, the  *)
(* shared daily flag file, the wall clock and the operator at the prompt.  *)
(* Every public method is one atomic action; a process restart constructs  *)
(* a new limiter over the same files.                                      *)
(***************************************************************************)
EXTENDS Integers, Sequences, FiniteSets, TLC

\* ------------------------------------------------------------------ bounds
\* The wall clock is a calendar date (year, month, day); the time of day never
\* enters a comparison of the code.  The calendar has MonthsPerYear months of
\* DaysPerMonth days, and the clock runs from day 0 to day Horizon.
MonthsPerYear == 2
DaysPerMonth == 2
Horizon == 5
\* The largest monthly limit a limiter is constructed with.
MaxCalls == 3
\* The largest `retries` send_alert is called with directly, and the largest
\* number of SMTP sessions that fail in a row.
MaxRetries == 3

\* ------------------------------------------------------- program constants
\* send_alert(self, retries=3, delay=2)
Retries == 3
\* record_call: usage_ratio() >= 0.5, as a percentage
DigestPct == 50
\* __init__(..., alert_treshold=0.5, ...), and the default the module
\* docstring documents (80%), as percentages
DefaultAlertPct == 50
DocumentedAlertPct == 80
\* The ceilings of the max_calls and daily_max_calls setters.
MonthlyCeiling == 5000
DailyCeiling == 1000

\* The number of the day dt, counted from the first day of year 0.
Ordinal(dt) == (dt.year * MonthsPerYear + (dt.month - 1)) * DaysPerMonth + (dt.day - 1)

Years == 0..(Horizon \div (MonthsPerYear * DaysPerMonth))
Months == 1..MonthsPerYear
Days == 1..DaysPerMonth
Times == {dt \in [year : Years, month : Months, day : Days] : Ordinal(dt) <= Horizon}

\* __init__(max_calls=..., alert_treshold=0.5): the limits and thresholds a
\* limiter is constructed with (nothing in __init__ validates them).
CallLimits == 0..MaxCalls
\* daily_max_calls: a tight daily limit, and the default (daily_max_calls=1000).
DailyLimits == {1, DailyCeiling}
AlertPcts == {DefaultAlertPct, DocumentedAlertPct}

\* What the operator types at the credential prompt.
CredInputs == {"ok", "empty"}
\* Python's None.
None == "None"
\* The decorations guard() is used with: a fallback with the default message
\* (get_geocode), a message and no fallback (get_current_weather), and a
\* fallback that is falsy but not None.
Decorations ==
    { [fallback |-> "Gmaps Geocode API quota reached!", message |-> "API quota reached!"],
      [fallback |-> None, message |-> "Gmaps Weather API quota reached!"],
      [fallback |-> "", message |-> "API quota reached!"] }
\* Arguments a caller passes to a guarded function.
Args == {"a1", "a2"}
\* Threads that call record_call() on one limiter.
Callers == {"t1", "t2"}

VARIABLES
    now,                \* datetime.now()
    pc,                 \* per caller: where it is inside record_call()
    constructed,        \* __init__ returned: the process has a limiter
    max_calls,          \* self._max_calls
    daily_max_calls,    \* self._daily_max_calls
    alert_threshold,    \* self.alert_threshold, as a percentage
    call_timestamps,    \* self.call_timestamps
    alert_sent,         \* self.alert_sent
    daily_alert_active, \* self.daily_alert_active
    cached_credentials, \* self._cached_credentials is not None
    ledger_file,        \* contents of self.filepath, or NoFile
    flag_file,          \* contents of daily_alert_flag.json, or NoFile
    accepted,           \* history: records appended in the month of now
    alert_calls,        \* history: send_alert invocations, this process and month
    digest_calls,       \* history: send_daily_usage_alert invocations on the day of now
    last                \* the last operation and what its caller observed

vars == <<now, pc, constructed, max_calls, daily_max_calls, alert_threshold, call_timestamps, alert_sent,
          daily_alert_active, cached_credentials, ledger_file, flag_file,
          accepted, alert_calls, digest_calls, last>>

\* A caller outside record_call(), and one that is between record_call()'s
\* `if self.can_call():` and its append, having seen `seen` records of the
\* month when can_call() returned True.
Idle == [at |-> "idle", seen |-> 0]
Checked(seen) == [at |-> "checked", seen |-> seen]
\* A caller that has appended and saved its record (lines 119-120) and has
\* the notification blocks (lines 122-137) still before it.
Saved == [at |-> "saved", seen |-> 0]

\* A file that does not exist; a ledger file holds a JSON list of ISO strings,
\* the flag file holds {"date": "YYYY-MM-DD"}.
NoFile == [exists |-> FALSE, data |-> <<>>]
File(data) == [exists |-> TRUE, data |-> data]

\* ------------------------------------------------------------ pure helpers

\* datetime.isoformat / datetime.fromisoformat: the text form is the field
\* sequence "YYYY-MM-DD...".
\* save() writing dt.strftime("%Y-%m") for dt.isoformat().
isoformat_month_only(dt) == <<dt.year, dt.month, 1>>

isoformat(dt) == <<dt.year, dt.month, dt.day>>
fromisoformat(s) == [year |-> s[1], month |-> s[2], day |-> s[3]]

\* datetime.now().strftime("%Y-%m-%d")
strftime_date(dt) == <<dt.year, dt.month, dt.day>>

is_same_month(dt1, dt2) == dt1.year = dt2.year /\ dt1.month = dt2.month

filter_calls_this_month(ts, t) ==
    SelectSeq(ts, LAMBDA x : x.year = t.year /\ x.month = t.month)

filter_calls_today(ts, t) ==
    SelectSeq(ts, LAMBDA x : x.year = t.year /\ x.month = t.month /\ x.day = t.day)

\* usage_ratio() over every record of the ledger, whatever its month.
usage_ratio_all_records(ts, t, limit) == [num |-> Len(ts), den |-> limit]

\* usage_ratio(): len(filter_calls_this_month()) / max_calls, as the fraction
\* num/den (limit > 0; Python raises ZeroDivisionError otherwise).
usage_ratio(ts, t, limit) == [num |-> Len(filter_calls_this_month(ts, t)), den |-> limit]

\* __str__(): calls_left = max_calls - len(filter_calls_this_month()).
calls_left(ts, t, limit) == limit - Len(filter_calls_this_month(ts, t))

\* usage_ratio() >= pct/100, with usage_ratio = len(this month) / max_calls.
\* Only evaluated after can_call() returned True, so max_calls > 0.
usage_ratio_at_least(ts, t, limit, pct) ==
    Len(filter_calls_this_month(ts, t)) * 100 >= pct * limit

\* can_call() with `self.alert_sent = False` outside the rollover test.
rollover_always_resets(ts, sent, active, t) ==
    IF ts # <<>> /\ ~is_same_month(ts[Len(ts)], t)
    THEN [ts |-> <<>>, sent |-> FALSE, active |-> active]
    ELSE [ts |-> ts, sent |-> FALSE, active |-> active]

\* can_call() without `self.call_timestamps = []` in its rollover blocks.
rollover_keeps_ledger(ts, sent, active, t) ==
    IF ts # <<>> /\ ~is_same_month(ts[Len(ts)], t)
    THEN [ts |-> ts, sent |-> FALSE, active |-> FALSE]
    ELSE [ts |-> ts, sent |-> sent, active |-> active]

\* The state can_call() leaves behind: the two rollover blocks, in order.
rollover(ts, sent, active, t) ==
    LET b1 == IF ts # <<>> /\ ~is_same_month(ts[Len(ts)], t)
              THEN [ts |-> <<>>, sent |-> FALSE, active |-> active]
              ELSE [ts |-> ts, sent |-> sent, active |-> active]
    IN  IF b1.ts # <<>> /\ ~is_same_month(b1.ts[Len(b1.ts)], t)
        THEN [ts |-> <<>>, sent |-> FALSE, active |-> FALSE]
        ELSE b1

\* The value can_call() returns, on the ledger its rollover blocks left.
can_call_value_off_by_one(ts, t, limit) ==
    Len(filter_calls_this_month(ts, t)) <= limit

\* can_call() gating on the daily limit as well.
can_call_value_daily_gate(ts, t, limit) ==
    /\ Len(filter_calls_this_month(ts, t)) < limit
    /\ Len(filter_calls_today(ts, t)) < daily_max_calls

can_call_value(ts, t, limit) == Len(filter_calls_this_month(ts, t)) < limit

\* A save() that runs before the append: the newest record is not written.
save_before_append(ts) ==
    File([i \in 1..(IF Len(ts) = 0 THEN 0 ELSE Len(ts) - 1) |-> isoformat(ts[i])])

\* save(): the ledger as a JSON list of ISO strings.
save(ts) == File([i \in 1..Len(ts) |-> isoformat(ts[i])])

\* Ledger file contents load() cannot read: text that is no JSON document
\* (an empty file, as open(path, "w") leaves it when the process dies before
\* json.dump), and a JSON list with an entry that is no ISO timestamp.
BadJson == <<>>
BadIso == <<0, 0, 0>>
CorruptLedgers == {File(<<BadJson>>), File(<<BadIso>>)}

\* The exception json.load / datetime.fromisoformat raise inside load();
\* load() catches FileNotFoundError and nothing else.
load_raises(file) ==
    IF ~file.exists THEN "none"
    ELSE IF \E i \in 1..Len(file.data) : file.data[i] = BadJson THEN "JSONDecodeError"
    ELSE IF \E i \in 1..Len(file.data) :
                ~(file.data[i][2] \in Months /\ file.data[i][3] \in Days)
    THEN "ValueError"
    ELSE "none"

\* load(): FileNotFoundError gives the empty ledger.
load(file) ==
    IF ~file.exists THEN <<>>
    ELSE [i \in 1..Len(file.data) |-> fromisoformat(file.data[i])]

\* alert_sent_today() of an instance that does not see the others' marker.
alert_sent_today_own_marker(flag, t) == FALSE

\* alert_sent_today(): FileNotFoundError gives False.
alert_sent_today(flag, t) == IF ~flag.exists THEN FALSE ELSE flag.data = strftime_date(t)

\* mark_alert_sent_today()
mark_alert_sent_today(t) == File(strftime_date(t))

\* get_credentials() without `self._cached_credentials = (email, password)`.
get_credentials_never_caches(cached, typed) ==
    IF cached THEN [raised |-> FALSE, cached |-> TRUE, prompted |-> FALSE]
    ELSE IF typed = "empty" THEN [raised |-> TRUE, cached |-> FALSE, prompted |-> TRUE]
    ELSE [raised |-> FALSE, cached |-> FALSE, prompted |-> TRUE]

\* get_credentials(): the cached pair, or the prompt; an empty email or
\* password raises ValueError and caches nothing.
get_credentials(cached, typed) ==
    IF cached THEN [raised |-> FALSE, cached |-> TRUE, prompted |-> FALSE]
    ELSE IF typed = "empty" THEN [raised |-> TRUE, cached |-> FALSE, prompted |-> TRUE]
    ELSE [raised |-> FALSE, cached |-> TRUE, prompted |-> TRUE]

\* send_alert's loop with time.sleep(delay) after every failed session, the
\* last one included.
RECURSIVE send_alert_loop_sleeps_after_last(_, _, _, _)
send_alert_loop_sleeps_after_last(attempt, retries, fails, sleeps) ==
    IF attempt > retries
    THEN [outcome |-> "failed", attempts |-> attempt - 1, sleeps |-> sleeps]
    ELSE IF attempt > fails
    THEN [outcome |-> "sent", attempts |-> attempt, sleeps |-> sleeps]
    ELSE send_alert_loop_sleeps_after_last(attempt + 1, retries, fails, sleeps + 1)

\* send_alert, `for attempt in range(1, retries + 1)` from `attempt` on: the
\* SMTP sessions numbered 1..fails fail and the next one succeeds; a success
\* returns, a failure sleeps `delay` if attempt < retries, and the loop's end
\* prints the terminal failure.  sleeps counts the calls of time.sleep(delay).
RECURSIVE send_alert_loop(_, _, _, _)
send_alert_loop(attempt, retries, fails, sleeps) ==
    IF attempt > retries
    THEN [outcome |-> "failed", attempts |-> attempt - 1, sleeps |-> sleeps]
    ELSE IF attempt > fails
    THEN [outcome |-> "sent", attempts |-> attempt, sleeps |-> sleeps]
    ELSE send_alert_loop(attempt + 1, retries, fails,
                         IF attempt < retries THEN sleeps + 1 ELSE sleeps)

\* 1 for True, 0 for False.
Count(b) == IF b THEN 1 ELSE 0

\* send_alert(retries, delay): get_credentials() for the From header and
\* again for the login pair (an exception there leaves the method), then the
\* loop of up to `retries` SMTP sessions.  prompts counts the prompts shown.
send_alert(cached, typed, retries, fails) ==
    LET c1 == get_credentials(cached, typed)
        c2 == get_credentials(c1.cached, typed)
        l == send_alert_loop(1, retries, fails, 0)
    IN  IF c1.raised
        THEN [outcome |-> "raised", cached |-> c1.cached, attempts |-> 0, sleeps |-> 0,
              prompts |-> Count(c1.prompted)]
        ELSE IF c2.raised
        THEN [outcome |-> "raised", cached |-> c2.cached, attempts |-> 0, sleeps |-> 0,
              prompts |-> Count(c1.prompted) + Count(c2.prompted)]
        ELSE [outcome |-> l.outcome, cached |-> c2.cached,
              attempts |-> l.attempts, sleeps |-> l.sleeps,
              prompts |-> Count(c1.prompted) + Count(c2.prompted)]

\* send_daily_usage_alert(): credentials, then one SMTP session whose
\* exception is caught and printed.
send_daily_usage_alert(cached, typed, smtp_ok) ==
    LET c == get_credentials(cached, typed)
    IN  IF c.raised
        THEN [outcome |-> "raised", cached |-> c.cached, attempts |-> 0,
              prompts |-> Count(c.prompted)]
        ELSE [outcome |-> IF smtp_ok THEN "sent" ELSE "failed",
              cached |-> c.cached, attempts |-> 1, prompts |-> Count(c.prompted)]

\* The wrapped function of guard(): an external call whose result is a
\* function of its arguments.
func(arg) == IF arg = "a1" THEN "r1" ELSE "r2"

\* guard()'s wrapper with `if fallback:` for `if fallback is not None:`.
wrapper_truthy_fallback(allowed, fallback, message, arg) ==
    IF allowed
    THEN [raised |-> "none", value |-> func(arg), calls |-> 1, passed |-> arg]
    ELSE IF fallback # None /\ fallback # ""
    THEN [raised |-> "none", value |-> fallback, calls |-> 0, passed |-> None]
    ELSE [raised |-> "RuntimeError", value |-> message, calls |-> 0, passed |-> None]

\* guard()'s wrapper, given what can_call() returned.
wrapper(allowed, fallback, message, arg) ==
    IF allowed
    THEN [raised |-> "none", value |-> func(arg), calls |-> 1, passed |-> arg]
    ELSE IF fallback # None
    THEN [raised |-> "none", value |-> fallback, calls |-> 0, passed |-> None]
    ELSE [raised |-> "RuntimeError", value |-> message, calls |-> 0, passed |-> None]

\* ------------------------------------------------------------ observations

\* op: the method; ret: its boolean result; raised: the exception that left
\* it; digest, alert: what became of send_daily_usage_alert / send_alert
\* within it; attempts, digest_attempts: SMTP sessions the two opened; for a
\* direct send_alert or send_daily_usage_alert, the retries argument, the
\* number of failing sessions, the times it slept and the credential prompts
\* it showed; for usage_ratio, the fraction num/den; for __str__, the calls
\* left; for get_recommendation, its four weather inputs; for a guarded
\* function of gmaps_package, its name and what became of its API request
\* ("none": not made, "ok", "failed"); for a restart, whether the process
\* that ended had sent this month's alert; for guard, the
\* caller's fallback, message and argument, the value returned (or the text
\* of the error), and how often and with what the wrapped function ran.
Obs(op, ret) ==
    [op |-> op, ret |-> ret, raised |-> "none", digest |-> "none", alert |-> "none",
     attempts |-> 0, digest_attempts |-> 0, retries |-> 0, fails |-> 0, sleeps |-> 0,
     prompts |-> 0, num |-> 0, den |-> 0, left |-> 0, inputs |-> <<>>,
     fn |-> None, api |-> "none", lost_alert |-> FALSE,
     fallback |-> None, message |-> None, arg |-> None,
     value |-> None, calls |-> 0, passed |-> None]

\* ------------------------------------------------------------------- Init

\* __init__ on a machine where neither file exists yet.
Init ==
    /\ now = [year |-> 0, month |-> 1, day |-> 1]
    /\ pc = [t \in Callers |-> Idle]
    /\ constructed = TRUE
    /\ max_calls \in CallLimits
    /\ daily_max_calls \in DailyLimits
    /\ alert_threshold \in AlertPcts
    /\ call_timestamps = load(NoFile)
    /\ alert_sent = FALSE
    /\ daily_alert_active = FALSE
    /\ cached_credentials = FALSE
    /\ ledger_file = NoFile
    /\ flag_file = NoFile
    /\ accepted = 0
    /\ alert_calls = 0
    /\ digest_calls = 0
    /\ last = Obs("init", FALSE)

\* ---------------------------------------------------------------- actions

\* The wall clock moves forward: to the next day, to the first day of the next
\* month, or to the first day of the next year (any later date is a sequence
\* of these).
NextDates(t) ==
    { [t EXCEPT !.day = t.day + 1],
      [t EXCEPT !.month = t.month + 1, !.day = 1],
      [year |-> t.year + 1, month |-> 1, day |-> 1] } \cap Times

Tick ==
    \E t \in NextDates(now) :
        /\ now' = t
        /\ accepted' = IF is_same_month(now, t) THEN accepted ELSE 0
        /\ alert_calls' = IF is_same_month(now, t) THEN alert_calls ELSE 0
        /\ digest_calls' = 0
        /\ last' = Obs("tick", FALSE)
        /\ UNCHANGED <<pc, constructed, max_calls, daily_max_calls, alert_threshold,
                       call_timestamps, alert_sent,
                       daily_alert_active, cached_credentials, ledger_file, flag_file>>

\* The process ends and a new one constructs the limiter again: __init__.
\* An exception of load() leaves __init__, and the new process has no limiter.
Restart ==
    /\ pc' = [t \in Callers |-> Idle]
    /\ constructed' = (load_raises(ledger_file) = "none")
    /\ call_timestamps' = IF load_raises(ledger_file) = "none"
                          THEN load(ledger_file) ELSE <<>>
    /\ alert_sent' = FALSE
    /\ daily_alert_active' = FALSE
    /\ cached_credentials' = FALSE
    /\ alert_calls' = 0
    /\ last' = [Obs("restart", FALSE) EXCEPT
                    !.raised = load_raises(ledger_file),
                    !.lost_alert = (alert_sent /\ call_timestamps # <<>>
                                    /\ is_same_month(call_timestamps[Len(call_timestamps)], now))]
    /\ UNCHANGED <<now, max_calls, daily_max_calls, alert_threshold,
                   ledger_file, flag_file, accepted, digest_calls>>

clear_credentials ==
    /\ constructed
    /\ cached_credentials' = FALSE
    /\ last' = Obs("clear_credentials", FALSE)
    /\ UNCHANGED <<now, pc, constructed, max_calls, daily_max_calls,
                   alert_threshold, call_timestamps, alert_sent, daily_alert_active,
                   ledger_file, flag_file, accepted, alert_calls, digest_calls>>

can_call ==
    /\ constructed
    /\ \E r \in {rollover(call_timestamps, alert_sent, daily_alert_active, now)} :
            /\ call_timestamps' = r.ts
            /\ alert_sent' = r.sent
            /\ daily_alert_active' = r.active
            /\ last' = Obs("can_call", can_call_value(r.ts, now, max_calls))
            /\ UNCHANGED <<now, pc, constructed, max_calls, daily_max_calls,
                           alert_threshold, cached_credentials, ledger_file, flag_file,
                           accepted, alert_calls, digest_calls>>

guard(fallback, message, arg) ==
    /\ constructed
    /\ \E r \in {rollover(call_timestamps, alert_sent, daily_alert_active, now)} :
        \E w \in {wrapper(can_call_value(r.ts, now, max_calls), fallback, message, arg)} :
            /\ call_timestamps' = r.ts
            /\ alert_sent' = r.sent
            /\ daily_alert_active' = r.active
            /\ last' = [Obs("guard", FALSE) EXCEPT
                            !.raised = w.raised, !.value = w.value,
                            !.fallback = fallback, !.message = message, !.arg = arg,
                            !.calls = w.calls, !.passed = w.passed]
            /\ UNCHANGED <<now, pc, constructed, max_calls, daily_max_calls,
                           alert_threshold, cached_credentials, ledger_file, flag_file,
                           accepted, alert_calls, digest_calls>>

\* record_call(), lines 122-125: the CLI notice at 50% usage switches the
\* daily digest on.
notify_half_usage(ts, active, t, limit) ==
    IF usage_ratio_at_least(ts, t, limit, DigestPct) /\ ~active THEN TRUE ELSE active

\* record_call(), lines 127-130: the daily digest, and the mark that follows
\* whenever send_daily_usage_alert returns.
daily_digest(active, cached, flag, t, typed, smtp_ok) ==
    IF active /\ ~alert_sent_today(flag, t)
    THEN LET d == send_daily_usage_alert(cached, typed, smtp_ok)
         IN  [digest |-> d.outcome, cached |-> d.cached, attempts |-> d.attempts,
              flag |-> IF d.outcome = "raised" THEN flag ELSE mark_alert_sent_today(t)]
    ELSE [digest |-> "none", cached |-> cached, attempts |-> 0, flag |-> flag]

\* record_call(), lines 132-135: the one-time alert, and alert_sent = True
\* whenever send_alert returns.
monthly_alert(ts, sent, cached, t, limit, pct, typed, fails) ==
    IF usage_ratio_at_least(ts, t, limit, pct) /\ ~sent
    THEN LET a == send_alert(cached, typed, Retries, fails)
         IN  [alert |-> a.outcome, attempts |-> a.attempts, cached |-> a.cached,
              sent |-> IF a.outcome = "raised" THEN sent ELSE TRUE]
    ELSE [alert |-> "none", attempts |-> 0, cached |-> cached, sent |-> sent]

\* record_call(): typed is what the operator types if prompted, smtp_ok whether
\* the digest's SMTP session succeeds, fails how many of send_alert's sessions
\* fail before one succeeds.  A ValueError of get_credentials leaves the
\* method where it is raised.  base is the observation the caller starts
\* from: record_call() called for itself, or from inside a guarded function.
record_call_observed(base, typed, smtp_ok, fails) ==
    /\ constructed
    /\ \E r \in {rollover(call_timestamps, alert_sent, daily_alert_active, now)} :
            IF ~can_call_value(r.ts, now, max_calls)
            THEN /\ call_timestamps' = r.ts
                 /\ alert_sent' = r.sent
                 /\ daily_alert_active' = r.active
                 /\ last' = [base EXCEPT !.ret = FALSE]
                 /\ UNCHANGED <<now, pc, constructed, max_calls, daily_max_calls,
                                alert_threshold, cached_credentials, ledger_file, flag_file,
                                accepted, alert_calls, digest_calls>>
            ELSE \E ts1 \in {Append(r.ts, now)} :
                 \E active1 \in {notify_half_usage(ts1, r.active, now, max_calls)} :
                 \E dg \in {daily_digest(active1, cached_credentials, flag_file, now,
                                         typed, smtp_ok)} :
                 \E al \in {IF dg.digest = "raised"
                             THEN [alert |-> "none", attempts |-> 0,
                                   cached |-> dg.cached, sent |-> r.sent]
                             ELSE monthly_alert(ts1, r.sent, dg.cached, now, max_calls,
                                                alert_threshold, typed, fails)} :
                     /\ call_timestamps' = ts1
                     /\ ledger_file' = save(ts1)
                     /\ daily_alert_active' = active1
                     /\ flag_file' = dg.flag
                     /\ cached_credentials' = al.cached
                     /\ alert_sent' = al.sent
                     /\ accepted' = accepted + 1
                     /\ digest_calls' = digest_calls + (IF dg.digest # "none" THEN 1 ELSE 0)
                     /\ alert_calls' = alert_calls + (IF al.alert # "none" THEN 1 ELSE 0)
                     /\ last' = [base EXCEPT
                                     !.ret = (dg.digest # "raised" /\ al.alert # "raised"),
                                     !.raised = IF dg.digest = "raised" \/ al.alert = "raised"
                                                THEN "ValueError" ELSE "none",
                                     !.digest = dg.digest,
                                     !.digest_attempts = dg.attempts,
                                     !.alert = al.alert, !.attempts = al.attempts]
                     /\ UNCHANGED <<now, pc, constructed, max_calls, daily_max_calls, alert_threshold>>

record_call(typed, smtp_ok, fails) ==
    record_call_observed(Obs("record_call", TRUE), typed, smtp_ok, fails)

Next ==
    \/ Tick
    \/ Restart
    \/ clear_credentials
    \/ can_call
    \/ \E dec \in Decorations, arg \in Args :
           guard(dec.fallback, dec.message, arg)
    \/ \E typed \in CredInputs, smtp_ok \in BOOLEAN, fails \in 0..Retries :
           record_call(typed, smtp_ok, fails)

Spec == Init /\ [][Next]_vars

\* The ledger file is damaged from outside the limiter: a process killed
\* between open(path, "w") and json.dump, or an edit by hand.
CorruptLedger ==
    /\ \E f \in CorruptLedgers : ledger_file' = f
    /\ last' = Obs("corrupt_ledger", FALSE)
    /\ UNCHANGED <<now, pc, constructed, max_calls, daily_max_calls,
                   alert_threshold, call_timestamps, alert_sent, daily_alert_active, cached_credentials,
                   flag_file, accepted, alert_calls, digest_calls>>

NextStartup == Next \/ CorruptLedger

\* The limiter with a ledger file that can be damaged between two processes.
SpecStartup == Init /\ [][NextStartup]_vars

\* send_alert(retries, delay) called on the limiter directly.  Its message
\* is built from usage_ratio(), which divides by max_calls, before anything
\* else happens.
SendAlert(retries, typed, fails) ==
    /\ constructed
    /\ \E a \in {IF max_calls = 0
                  THEN [outcome |-> "raised", cached |-> cached_credentials,
                        attempts |-> 0, sleeps |-> 0, prompts |-> 0]
                  ELSE send_alert(cached_credentials, typed, retries, fails)} :
            /\ cached_credentials' = a.cached
            /\ last' = [Obs("send_alert", FALSE) EXCEPT
                            !.raised = IF max_calls = 0 THEN "ZeroDivisionError"
                                       ELSE IF a.outcome = "raised" THEN "ValueError"
                                       ELSE "none",
                            !.alert = a.outcome, !.attempts = a.attempts,
                            !.retries = retries, !.fails = fails, !.sleeps = a.sleeps,
                            !.prompts = a.prompts]
            /\ UNCHANGED <<now, pc, constructed, max_calls, daily_max_calls,
                           alert_threshold, call_timestamps, alert_sent, daily_alert_active,
                           ledger_file, flag_file, accepted, alert_calls, digest_calls>>

\* send_daily_usage_alert() called on the limiter directly.
SendDailyUsageAlert(typed, smtp_ok) ==
    /\ constructed
    /\ \E d \in {send_daily_usage_alert(cached_credentials, typed, smtp_ok)} :
            /\ cached_credentials' = d.cached
            /\ last' = [Obs("send_daily_usage_alert", FALSE) EXCEPT
                            !.raised = IF d.outcome = "raised" THEN "ValueError" ELSE "none",
                            !.digest = d.outcome, !.digest_attempts = d.attempts,
                            !.prompts = d.prompts]
            /\ UNCHANGED <<now, pc, constructed, max_calls, daily_max_calls,
                           alert_threshold, call_timestamps, alert_sent, daily_alert_active,
                           ledger_file, flag_file, accepted, alert_calls, digest_calls>>

NextSendAlert ==
    \/ clear_credentials
    \/ \E typed \in CredInputs, smtp_ok \in BOOLEAN : SendDailyUsageAlert(typed, smtp_ok)
    \/ \E retries \in 0..MaxRetries, typed \in CredInputs, fails \in 0..MaxRetries :
           SendAlert(retries, typed, fails)

\* ApiLimiter(max_calls=10, alert_treshold=0.8) on a machine with neither
\* file: the limiter of the reference scenario.
ReferenceConfig == [max_calls |-> 10, alert_threshold |-> 80]

InitReference ==
    /\ now = [year |-> 0, month |-> 1, day |-> 1]
    /\ pc = [t \in Callers |-> Idle]
    /\ constructed = TRUE
    /\ max_calls = ReferenceConfig.max_calls
    /\ daily_max_calls \in DailyLimits
    /\ alert_threshold = ReferenceConfig.alert_threshold
    /\ call_timestamps = load(NoFile)
    /\ alert_sent = FALSE
    /\ daily_alert_active = FALSE
    /\ cached_credentials = FALSE
    /\ ledger_file = NoFile
    /\ flag_file = NoFile
    /\ accepted = 0
    /\ alert_calls = 0
    /\ digest_calls = 0
    /\ last = Obs("init", FALSE)

\* The clock moves within the month.
TickSameMonth == Tick /\ is_same_month(now, now')

NextReference ==
    \/ TickSameMonth
    \/ can_call
    \/ \E typed \in CredInputs, smtp_ok \in BOOLEAN, fails \in 0..Retries :
           record_call(typed, smtp_ok, fails)

\* One sequential caller of the reference limiter, all calls in one month.
SpecReference == InitReference /\ [][NextReference]_vars

\* record_call() of caller t, line 118: `if self.can_call():`.  Nothing makes
\* the method atomic, so other callers run between this and the append.
RecordCheck(t) ==
    /\ constructed
    /\ pc[t] = Idle
    /\ \E r \in {rollover(call_timestamps, alert_sent, daily_alert_active, now)} :
       \E ok \in {can_call_value(r.ts, now, max_calls)} :
            /\ call_timestamps' = r.ts
            /\ alert_sent' = r.sent
            /\ daily_alert_active' = r.active
            /\ pc' = IF ok THEN [pc EXCEPT ![t] = Checked(Len(filter_calls_this_month(r.ts, now)))]
                     ELSE pc
            /\ last' = Obs(IF ok THEN "record_check" ELSE "record_call", FALSE)
            /\ UNCHANGED <<now, constructed, max_calls, daily_max_calls, alert_threshold,
                           cached_credentials, ledger_file, flag_file,
                           accepted, alert_calls, digest_calls>>

\* record_call() of caller t, lines 119-120: append and save().
RecordAppend(t) ==
    /\ constructed
    /\ pc[t].at = "checked"
    /\ call_timestamps' = Append(call_timestamps, now)
    /\ ledger_file' = save(call_timestamps')
    /\ accepted' = accepted + 1
    /\ pc' = [pc EXCEPT ![t] = Saved]
    /\ last' = Obs("record_append", FALSE)
    /\ UNCHANGED <<now, constructed, max_calls, daily_max_calls, alert_threshold,
                   alert_sent, daily_alert_active, cached_credentials, flag_file,
                   alert_calls, digest_calls>>

\* record_call() of caller t, lines 122-137: the three notification blocks
\* and the return.
RecordNotify(t, typed, smtp_ok, fails) ==
    /\ constructed
    /\ pc[t] = Saved
    /\ \E active1 \in {notify_half_usage(call_timestamps, daily_alert_active, now, max_calls)} :
       \E dg \in {daily_digest(active1, cached_credentials, flag_file, now, typed, smtp_ok)} :
       \E al \in {IF dg.digest = "raised"
                   THEN [alert |-> "none", attempts |-> 0,
                         cached |-> dg.cached, sent |-> alert_sent]
                   ELSE monthly_alert(call_timestamps, alert_sent, dg.cached, now, max_calls,
                                      alert_threshold, typed, fails)} :
            /\ daily_alert_active' = active1
            /\ flag_file' = dg.flag
            /\ cached_credentials' = al.cached
            /\ alert_sent' = al.sent
            /\ digest_calls' = digest_calls + Count(dg.digest # "none")
            /\ alert_calls' = alert_calls + Count(al.alert # "none")
            /\ pc' = [pc EXCEPT ![t] = Idle]
            /\ last' = [Obs("record_call", TRUE) EXCEPT
                            !.ret = (dg.digest # "raised" /\ al.alert # "raised"),
                            !.raised = IF dg.digest = "raised" \/ al.alert = "raised"
                                       THEN "ValueError" ELSE "none",
                            !.digest = dg.digest,
                            !.digest_attempts = dg.attempts,
                            !.alert = al.alert, !.attempts = al.attempts]
            /\ UNCHANGED <<now, constructed, max_calls, daily_max_calls, alert_threshold,
                           call_timestamps, ledger_file, accepted>>

NextThreads ==
    \/ Restart
    \/ \E t \in Callers : RecordCheck(t)
    \/ \E t \in Callers : RecordAppend(t)
    \/ \E t \in Callers, typed \in CredInputs, smtp_ok \in BOOLEAN, fails \in 0..Retries :
           RecordNotify(t, typed, smtp_ok, fails)

\* Two threads inside record_call() of one limiter, statement by statement,
\* and a process that can die and restart at any point.
SpecThreads == Init /\ [][NextThreads]_vars

\* usage_ratio() called on the limiter directly.
UsageRatio ==
    /\ constructed
    /\ last' = IF max_calls = 0
               THEN [Obs("usage_ratio", FALSE) EXCEPT !.raised = "ZeroDivisionError"]
               ELSE [Obs("usage_ratio", FALSE) EXCEPT
                        !.num = usage_ratio(call_timestamps, now, max_calls).num,
                        !.den = usage_ratio(call_timestamps, now, max_calls).den]
    /\ UNCHANGED <<now, pc, constructed, max_calls, daily_max_calls, alert_threshold,
                   call_timestamps, alert_sent, daily_alert_active, cached_credentials,
                   ledger_file, flag_file, accepted, alert_calls, digest_calls>>

\* str(limiter): the summary "... calls left this month".
Str ==
    /\ constructed
    /\ last' = [Obs("__str__", FALSE) EXCEPT
                    !.left = calls_left(call_timestamps, now, max_calls)]
    /\ UNCHANGED <<now, pc, constructed, max_calls, daily_max_calls, alert_threshold,
                   call_timestamps, alert_sent, daily_alert_active, cached_credentials,
                   ledger_file, flag_file, accepted, alert_calls, digest_calls>>

NextQueries == Next \/ UsageRatio \/ Str

\* The sequential caller who also reads usage_ratio() and the summary.
SpecQueries == Init /\ [][NextQueries]_vars

\* ------------------------------------------- several limiters, one marker

\* An accepted record_call() of another ApiLimiter of the same working
\* directory (gmaps_pollen.py's or garden_care_guide.py's, each with a ledger
\* of its own): its lines 127-130 read and write the same
\* "daily_alert_flag.json".  active and cached are that instance's
\* daily_alert_active and credential cache.
OtherLimiterRecordCall(active, cached, typed, smtp_ok) ==
    \E dg \in {daily_digest(active, cached, flag_file, now, typed, smtp_ok)} :
        /\ flag_file' = dg.flag
        /\ last' = [Obs("other_record_call", dg.digest # "raised") EXCEPT
                        !.raised = IF dg.digest = "raised" THEN "ValueError" ELSE "none",
                        !.digest = dg.digest, !.digest_attempts = dg.attempts]
        /\ UNCHANGED <<now, pc, constructed, max_calls, daily_max_calls,
                       alert_threshold, call_timestamps, alert_sent, daily_alert_active,
                       cached_credentials, ledger_file, accepted, alert_calls, digest_calls>>

NextInstances ==
    \/ Tick
    \/ \E typed \in CredInputs, smtp_ok \in BOOLEAN, fails \in 0..Retries :
           record_call(typed, smtp_ok, fails)
    \/ \E active \in BOOLEAN, cached \in BOOLEAN, typed \in CredInputs, smtp_ok \in BOOLEAN :
           OtherLimiterRecordCall(active, cached, typed, smtp_ok)

SpecInstances == Init /\ [][NextInstances]_vars

\* --------------------------------------------------- src/gmaps_package.py

\* The functions decorated with limiter.guard: whether the body looks in a
\* cache before the API request, and whether it calls limiter.record_call()
\* after a successful request.
GuardedFunctions ==
    { [name |-> "get_geocode", caches |-> TRUE, records |-> TRUE],
      [name |-> "get_current_weather", caches |-> FALSE, records |-> FALSE],
      [name |-> "get_extended_forecast", caches |-> TRUE, records |-> TRUE] }

\* A call of the guarded function f: the wrapper's can_call(); the body's
\* cache lookup (hit); the API request (api_ok); then record_call() if the
\* body has one.
GuardedCall(f, hit, api_ok, typed, smtp_ok, fails) ==
    \E r \in {rollover(call_timestamps, alert_sent, daily_alert_active, now)} :
    \E api \in {IF ~can_call_value(r.ts, now, max_calls) \/ (f.caches /\ hit) THEN "none"
                 ELSE IF api_ok THEN "ok" ELSE "failed"} :
    \E base \in {[Obs("guarded", TRUE) EXCEPT !.fn = f.name, !.api = api]} :
        IF api = "ok" /\ f.records
        THEN record_call_observed(base, typed, smtp_ok, fails)
        ELSE /\ constructed
             /\ call_timestamps' = r.ts
             /\ alert_sent' = r.sent
             /\ daily_alert_active' = r.active
             /\ last' = [base EXCEPT
                            !.ret = can_call_value(r.ts, now, max_calls),
                            !.raised = IF api = "failed" THEN "RequestException" ELSE "none"]
             /\ UNCHANGED <<now, pc, constructed, max_calls, daily_max_calls,
                            alert_threshold, cached_credentials, ledger_file, flag_file,
                            accepted, alert_calls, digest_calls>>

NextGoverned ==
    \/ Tick
    \/ \E f \in GuardedFunctions, hit \in BOOLEAN, api_ok \in BOOLEAN,
          typed \in CredInputs, smtp_ok \in BOOLEAN, fails \in 0..Retries :
           GuardedCall(f, hit, api_ok, typed, smtp_ok, fails)

\* The program's use of the gmaps limiter: only through guarded functions.
SpecGoverned == Init /\ [][NextGoverned]_vars

\* ------------------------------------------------- src/recommendations.py

\* Python values by type and truth value (0, 0.0, "" and None are falsy).
PyValues ==
    {[type |-> ty, truthy |-> b] : ty \in {"bool", "int", "float", "str"}, b \in BOOLEAN}
        \cup {[type |-> "NoneType", truthy |-> FALSE]}

\* isinstance(v, int) (bool is a subclass of int), isinstance(v, (int, float))
isinstance_int(v) == v.type \in {"int", "bool"}
isinstance_number(v) == v.type \in {"int", "float", "bool"}

\* Python's `a and b`: a if a is falsy, b otherwise.
py_and(a, b) == IF a.truthy THEN b ELSE a

\* v >= 60 and the like: an ordering comparison with an int raises TypeError
\* for a str or None.
compare_raises(v) == ~isinstance_number(v)

\* get_recommendation on its four weather inputs, the pollen risks being
\* strings: the type checks of lines 39-48 in order, then the body, whose
\* `rain_prob >= 60` and `humidity >= 70` are evaluated on every path.  Line
\* 47 (`temp and rain_prob and humidity == "N/A"`) needs a str humidity.
get_recommendation(is_daytime, temp, rain_prob, humidity) ==
    IF is_daytime.type # "bool" THEN "TypeError"
    ELSE IF ~isinstance_number(temp) THEN "TypeError"
    ELSE IF ~isinstance_int(py_and(rain_prob, humidity)) THEN "TypeError"
    ELSE IF temp.truthy /\ rain_prob.truthy /\ humidity.type = "str" /\ humidity.truthy
    THEN "TypeError"
    ELSE IF compare_raises(rain_prob) \/ compare_raises(humidity) THEN "TypeError"
    ELSE "none"

\* One run of the program calls get_recommendation once, on any inputs.
GetRecommendation(is_daytime, temp, rain_prob, humidity) ==
    /\ last.op = "init"
    /\ last' = [Obs("get_recommendation", FALSE) EXCEPT
                    !.raised = get_recommendation(is_daytime, temp, rain_prob, humidity),
                    !.inputs = <<is_daytime, temp, rain_prob, humidity>>]
    /\ UNCHANGED <<now, pc, constructed, max_calls, daily_max_calls, alert_threshold,
                   call_timestamps, alert_sent, daily_alert_active, cached_credentials,
                   ledger_file, flag_file, accepted, alert_calls, digest_calls>>

NextRecommendation ==
    \E is_daytime \in PyValues, temp \in PyValues, rain_prob \in PyValues, humidity \in PyValues :
        GetRecommendation(is_daytime, temp, rain_prob, humidity)

SpecRecommendation == Init /\ [][NextRecommendation]_vars

\* The notifier alone: send_alert with any retries, operator and SMTP server.
SpecSendAlert == Init /\ [][NextSendAlert]_vars

\* ----------------------------------------------------------------- claims

TypeOK ==
    /\ now \in Times
    /\ pc \in [Callers -> {Idle, Saved} \cup {Checked(n) : n \in 0..MaxCalls}]
    /\ constructed \in BOOLEAN
    /\ max_calls \in CallLimits
    /\ daily_max_calls \in DailyLimits
    /\ alert_threshold \in AlertPcts
    /\ call_timestamps \in Seq(Times)
    /\ alert_sent \in BOOLEAN
    /\ daily_alert_active \in BOOLEAN
    /\ cached_credentials \in BOOLEAN
    /\ ledger_file.exists \in BOOLEAN
    /\ flag_file.exists \in BOOLEAN
    /\ accepted \in 0..MaxCalls
    /\ alert_calls \in 0..MaxCalls
    /\ digest_calls \in 0..MaxCalls

\* What can_call() would return if it were called in this state.
WouldCall ==
    can_call_value(rollover(call_timestamps, alert_sent, daily_alert_active, now).ts,
                   now, max_calls)

\* The most recent ledger record lies in another (year, month) than the clock:
\* the next can_call() is the first one after a month rollover.
RolloverDue ==
    /\ call_timestamps # <<>>
    /\ ~is_same_month(call_timestamps[Len(call_timestamps)], now)

\* The usage ratio of this state has reached pct percent.
RatioReached(pct) == usage_ratio_at_least(call_timestamps, now, max_calls, pct)

IsPrefix(s, t) == Len(s) <= Len(t) /\ \A i \in 1..Len(s) : s[i] = t[i]

\* C1 (monotonic gating): while the clock stays in one calendar month,
\* can_call() returns true exactly while fewer than max_calls records have
\* been accepted in that month, and once it would return false it keeps
\* doing so until the clock moves to another (year, month).
C1_MonotonicGating ==
    /\ [](WouldCall <=> accepted < max_calls)
    /\ [](last.op = "can_call" => (last.ret <=> accepted < max_calls))
    /\ [][(is_same_month(now, now') /\ ~WouldCall) => ~WouldCall']_vars

C1_Witness ==
    /\ last.op = "can_call"
    /\ ~last.ret
    /\ max_calls > 0
    /\ accepted = max_calls

\* C2 (a refused record_call changes nothing): with max_calls > 0, a
\* record_call() that returns False leaves call_timestamps, the ledger file,
\* alert_sent, daily_alert_active and the flag file as they were, and
\* attempts no digest and no alert.
C2_RefusedRecordChangesNothing ==
    [][(max_calls > 0 /\ last'.op = "record_call" /\ last'.raised = "none" /\ ~last'.ret)
        => /\ UNCHANGED <<call_timestamps, ledger_file, alert_sent,
                          daily_alert_active, flag_file>>
           /\ last'.digest = "none"
           /\ last'.alert = "none"]_vars

C2_Witness ==
    /\ last.op = "record_call"
    /\ last.raised = "none"
    /\ ~last.ret
    /\ max_calls > 0
    /\ Len(call_timestamps) = max_calls
    /\ alert_sent

\* C3 (guard fallback law): with the quota exhausted the wrapped function is
\* not invoked, a fallback other than None is returned as it is, and without
\* a fallback the quota error carries error_message; with quota left the
\* wrapped function runs exactly once on the caller's arguments and its
\* result is returned.
C3_GuardFallbackLaw ==
    last.op = "guard" =>
        IF WouldCall
        THEN /\ last.calls = 1
             /\ last.passed = last.arg
             /\ last.raised = "none"
             /\ last.value = func(last.arg)
        ELSE /\ last.calls = 0
             /\ last.fallback # None =>
                    (last.raised = "none" /\ last.value = last.fallback)
             /\ last.fallback = None =>
                    (last.raised = "RuntimeError" /\ last.value = last.message)

C3_Witness ==
    /\ last.op = "guard"
    /\ ~WouldCall
    /\ max_calls > 0
    /\ last.fallback = ""
    /\ last.value = ""
    /\ last.raised = "none"

\* Records accepted in the month of the clock stay in the ledger for as long
\* as the clock stays in that month: no can_call()/record_call() clears them.
NewMonthRecordsKept ==
    [][is_same_month(now, now')
        => IsPrefix(filter_calls_this_month(call_timestamps, now), call_timestamps')]_vars

\* C4 (rollover idempotence): the first can_call() or guard() after the clock
\* moved to a new (year, month) clears the ledger and resets both alert
\* flags, and no later call in that month clears the ledger again.
C4_RolloverIdempotence ==
    /\ [][(RolloverDue /\ last'.op \in {"can_call", "guard"})
            => (call_timestamps' = <<>> /\ ~alert_sent' /\ ~daily_alert_active')]_vars
    /\ NewMonthRecordsKept

\* C5 (both alert flags reset on rollover): right after the first can_call()
\* whose clock is in another (year, month) than the most recent ledger
\* record, alert_sent and daily_alert_active are both False.
C5_FlagsResetOnRollover ==
    [][(RolloverDue /\ last'.op = "can_call")
        => (alert_sent' = FALSE /\ daily_alert_active' = FALSE)]_vars

\* C6 (at most one monthly alert): within one process lifetime and one
\* calendar month send_alert is invoked at most once, and only on a
\* record_call() after which the usage ratio has reached alert_threshold.
C6_AtMostOneMonthlyAlert ==
    /\ alert_calls <= 1
    /\ (last.op = "record_call" /\ last.alert # "none") => RatioReached(alert_threshold)

\* C7 (a failed alert counts as not sent): when send_alert exhausts its
\* retries alert_sent stays False, and every accepted record_call() that
\* starts with alert_sent False and ends at or above alert_threshold
\* attempts the alert.
C7_FailedAlertNotSent ==
    /\ []((last.op = "record_call" /\ last.alert = "failed") => ~alert_sent)
    /\ [][(~alert_sent /\ ~RolloverDue /\ last'.op = "record_call" /\ last'.ret
           /\ usage_ratio_at_least(call_timestamps', now', max_calls', alert_threshold'))
            => last'.alert # "none"]_vars

\* C8 (digest dedup): send_daily_usage_alert is invoked at most once per
\* calendar day, restarts included, and a record_call() made while the flag
\* file holds today's date invokes no digest.
C8_DigestOncePerDay ==
    /\ [](digest_calls <= 1)
    /\ [][(alert_sent_today(flag_file, now) /\ last'.op = "record_call" /\ now' = now)
            => last'.digest = "none"]_vars

\* C9 (the marker is written only after a successful digest): when the
\* digest's SMTP session fails the flag file does not hold today's date, and
\* an accepted record_call() made with digest mode on and no marker for today
\* attempts the digest.
C9_MarkerOnlyOnSuccess ==
    /\ []((last.op = "record_call" /\ last.digest = "failed")
            => ~alert_sent_today(flag_file, now))
    /\ [][(daily_alert_active /\ ~RolloverDue /\ ~alert_sent_today(flag_file, now)
           /\ last'.op = "record_call" /\ accepted' = accepted + 1)
            => last'.digest # "none"]_vars

\* C10 (digests only from 50% usage on): no send_daily_usage_alert is invoked
\* on a record_call() after which the usage ratio of the current month is
\* still below 0.5, months after a rollover included.
C10_DigestOnlyFromHalfUsage ==
    (last.op = "record_call" /\ last.digest # "none") => RatioReached(DigestPct)

\* C11 (notification failure never fails the call path): a record_call()
\* that appended its record returns True and raises nothing, whatever became
\* of the digest and the alert it attempted (SMTP failure, or an operator who
\* typed an empty email or password at the prompt).
C11_NotificationNeverFailsCall ==
    /\ [](last.op = "record_call" => last.raised = "none")
    /\ [][(last'.op = "record_call" /\ accepted' = accepted + 1) => last'.ret]_vars

\* The records of the ledger that fall on the day of the clock.
CallsToday == Len(filter_calls_today(call_timestamps, now))

C13_DailyLimitEnforced ==
    /\ CallsToday <= daily_max_calls
    /\ (last.op = "can_call" /\ CallsToday >= daily_max_calls) => ~last.ret

\* C14 (configuration is validated at construction): every limiter that
\* exists has 0 < max_calls <= 5000, 0 < daily_max_calls <= 1000 and an alert
\* threshold between the digest threshold and 1, so usage_ratio() never
\* divides by zero.
C14_ConfigurationValidated ==
    constructed =>
        /\ max_calls \in 1..MonthlyCeiling
        /\ daily_max_calls \in 1..DailyCeiling
        /\ alert_threshold \in DigestPct..100

\* C15 (the default alert threshold is 80%): a limiter constructed without an
\* alert threshold invokes send_alert only on a record_call() after which
\* usage has reached 80% of max_calls.
C15_DefaultAlertAtEightyPercent ==
    (alert_threshold = DefaultAlertPct /\ last.op = "record_call" /\ last.alert # "none")
        => RatioReached(DocumentedAlertPct)

\* Ledgers that pair the clock's date with any date, in either order, and
\* the empty ledger: no order and no month structure is assumed of them.
PairLedgers == {<<>>} \cup {<<now, t>> : t \in Times} \cup {<<t, now>> : t \in Times}

C17_LedgerPersistedAfterMutation ==
    last.op \in {"can_call", "record_call"} => load(ledger_file) = call_timestamps

\* C18 (a read failure at startup gives an empty ledger): every construction
\* succeeds, and one over a ledger file that is missing or that load() cannot
\* read starts with the empty ledger.
C18_ReadFailureStartsEmpty ==
    last.op = "restart" =>
        /\ constructed
        /\ last.raised = "none"
        /\ (~ledger_file.exists \/ ledger_file \in CorruptLedgers) => call_timestamps = <<>>

\* The part of C18 that holds: a missing ledger file gives the empty ledger.
MissingLedgerStartsEmpty ==
    (last.op = "restart" /\ ~ledger_file.exists) => (constructed /\ call_timestamps = <<>>)

\* C19 (bounded alert retries): send_alert(retries = N) opens at most N SMTP
\* sessions and stops at the first that succeeds; it sleeps once after every
\* failed session but the N-th; after N failed sessions it ends with the
\* terminal failure and raises nothing; it ends in every case.
C19_BoundedAlertRetries ==
    last.op = "send_alert" =>
        /\ last.alert \in {"sent", "failed", "raised"}
        /\ last.attempts <= last.retries
        /\ last.alert = "sent" =>
                /\ last.attempts = last.fails + 1
                /\ last.sleeps = last.fails
                /\ last.raised = "none"
        /\ last.alert = "failed" =>
                /\ last.fails >= last.retries
                /\ last.attempts = last.retries
                /\ last.sleeps = (IF last.retries > 0 THEN last.retries - 1 ELSE 0)
                /\ last.raised = "none"
        /\ last.alert = "raised" => (last.attempts = 0 /\ last.sleeps = 0)

C19_Witness ==
    /\ last.op = "send_alert"
    /\ last.alert = "failed"
    /\ last.retries = Retries
    /\ last.attempts = Retries
    /\ last.sleeps = Retries - 1

\* C20 (the digest is retried like the alert): a digest whose first SMTP
\* session fails is given up only after Retries sessions.
C20_DigestRetried ==
    (last.op = "record_call" /\ last.digest = "failed") => last.digest_attempts = Retries

\* A step of one of the two senders, called directly.
SendStep == last'.op \in {"send_alert", "send_daily_usage_alert"}

\* C21 as stated (at most one prompt between two clear_credentials()): of two
\* sends in a row, with no clear_credentials() between them, the second
\* shows no prompt if the first showed one.
C21_PromptedAtMostOnce ==
    [][(last.op \in {"send_alert", "send_daily_usage_alert"} /\ last.prompts > 0 /\ SendStep)
        => last'.prompts = 0]_vars

\* C21 (credential caching), amended: a send that finds the cache filled
\* shows no prompt and leaves it filled; a send that finds it empty shows
\* exactly one prompt, however many SMTP sessions follow, and fills the
\* cache exactly if the prompt gave a non-empty pair (an empty one raises and
\* caches nothing, so the next send prompts again); clear_credentials()
\* empties the cache; no send writes the ledger file or the flag file.
C21_CredentialCaching ==
    /\ [][(SendStep /\ last'.raised # "ZeroDivisionError") =>
            /\ cached_credentials => (last'.prompts = 0 /\ cached_credentials')
            /\ ~cached_credentials =>
                    /\ last'.prompts = 1
                    /\ cached_credentials' <=> last'.raised = "none"
            /\ UNCHANGED <<ledger_file, flag_file>>]_vars
    /\ [][last'.op = "clear_credentials" => ~cached_credentials']_vars

C21_Witness ==
    /\ last.op = "send_alert"
    /\ last.attempts = Retries
    /\ last.alert = "failed"
    /\ last.prompts = 1
    /\ cached_credentials

\* C22 (reference scenario, max_calls = 10, alert threshold 0.8, one month):
\* up to the 4th record_call() usage stays below 0.5, daily_alert_active is
\* False and no digest is attempted; the 5th reaches 0.5, sets
\* daily_alert_active and attempts a digest; the 8th reaches 0.8 and invokes
\* send_alert, and no other call does; calls 1 to 10 append one record each;
\* the 11th returns False with the ledger still at 10; can_call() is False
\* exactly from the 10th record on.
C22_ReferenceScenario ==
    /\ [][last'.op = "record_call" =>
            \E k \in {Len(call_timestamps) + 1} :
                /\ k <= 10 => Len(call_timestamps') = k
                /\ k <= 4 => /\ ~daily_alert_active'
                             /\ last'.digest = "none"
                             /\ ~usage_ratio_at_least(call_timestamps', now, max_calls, DigestPct)
                /\ k = 5 => /\ daily_alert_active'
                            /\ last'.digest # "none"
                            /\ Len(call_timestamps') * 100 = DigestPct * max_calls
                /\ k = 8 => /\ last'.alert # "none"
                            /\ Len(call_timestamps') * 100 = alert_threshold * max_calls
                /\ k # 8 => last'.alert = "none"
                /\ k = 11 => (~last'.ret /\ call_timestamps' = call_timestamps)]_vars
    /\ [](last.op = "can_call" => (last.ret <=> Len(call_timestamps) < 10))

\* The ledger records of the clock's (year, month).
MonthCount == Len(filter_calls_this_month(call_timestamps, now))

\* C23 (the quota is not protected against interleaving): with two callers
\* inside record_call(), an append made on a check that is still fresh (no
\* other caller appended since) keeps the month's records within max_calls,
\* as for a single sequential caller; an append on a stale check does not,
\* and the month's records reach max_calls + 1, never more.
C23_QuotaUnderInterleaving ==
    /\ [](MonthCount <= max_calls + Cardinality(Callers) - 1)
    /\ [][\A t \in Callers :
            (pc[t].at = "checked" /\ pc'[t] = Saved /\ pc[t].seen = MonthCount)
                => MonthCount' <= max_calls]_vars

C23_Witness ==
    /\ max_calls > 0
    /\ MonthCount > max_calls
    /\ \A t \in Callers : pc[t] = Saved

\* C24 (single-month ledger): for a sequential caller, with the clock free
\* to cross month boundaries between calls and the process free to restart,
\* all records of call_timestamps share one (year, month), and so do the
\* records of the ledger file.
C24_SingleMonthLedger ==
    /\ \A i, j \in 1..Len(call_timestamps) :
            is_same_month(call_timestamps[i], call_timestamps[j])
    /\ \A i, j \in 1..Len(load(ledger_file)) :
            is_same_month(load(ledger_file)[i], load(ledger_file)[j])

\* A record of the new month right after the rollover pruned two records of
\* an earlier month (alert_sent was set by them and is False again).
C24_Witness ==
    /\ last.op = "record_call"
    /\ last.ret
    /\ call_timestamps = <<now>>
    /\ ~(now.year = 0 /\ now.month = 1)
    /\ max_calls = MaxCalls
    /\ daily_alert_active
    /\ ~alert_sent

\* C25 (usage_ratio and the summary): with max_calls > 0, usage_ratio() is
\* (records of the clock's month) / max_calls and lies in [0, 1]; the calls
\* left of the summary are max_calls minus those records and lie in
\* [0, max_calls]; neither changes the limiter, its files or the clock.
C25_UsageRatioInRange ==
    /\ []((last.op = "usage_ratio" /\ max_calls > 0) =>
            /\ last.raised = "none"
            /\ last.num = MonthCount /\ last.den = max_calls
            /\ 0 <= last.num /\ last.num <= last.den)
    /\ []((last.op = "__str__" /\ max_calls > 0) =>
            /\ last.left = max_calls - MonthCount
            /\ last.left \in 0..max_calls)
    /\ [][last'.op \in {"usage_ratio", "__str__"} =>
            UNCHANGED <<now, pc, constructed, max_calls, daily_max_calls, alert_threshold,
                        call_timestamps, alert_sent, daily_alert_active, cached_credentials,
                        ledger_file, flag_file>>]_vars

\* usage_ratio() in a new month, before any can_call() pruned the full
\* ledger of the month before: 0 of max_calls.
C25_Witness ==
    /\ last.op = "usage_ratio"
    /\ max_calls > 0
    /\ Len(call_timestamps) = max_calls
    /\ last.num = 0
    /\ last.den = max_calls

\* C26 (get_recommendation rejects badly typed weather inputs): whenever
\* is_daytime is no bool, or temp no int or float, or rain_prob no int, or
\* humidity no int, the call raises TypeError and returns no string.
C26_BadTypesRaiseTypeError ==
    (/\ last.op = "get_recommendation"
     /\ \/ last.inputs[1].type # "bool"
        \/ ~isinstance_number(last.inputs[2])
        \/ ~isinstance_int(last.inputs[3])
        \/ ~isinstance_int(last.inputs[4]))
        => last.raised = "TypeError"

\* The part of C26 the tests exercise: a str or None among temp, rain_prob
\* and humidity, or an is_daytime that is no bool, raises TypeError.
NonNumbersRaiseTypeError ==
    (/\ last.op = "get_recommendation"
     /\ \/ last.inputs[1].type # "bool"
        \/ \E i \in 2..4 : ~isinstance_number(last.inputs[i]))
        => last.raised = "TypeError"

\* C27 (the guard/record contract is uniform): a call of a guarded function
\* adds exactly one record to the ledger its guard left if it completed a
\* successful API request, and none if it was refused, served from the
\* cache or its request failed; get_current_weather is no exception.
C27_UniformGuardRecordContract ==
    [][last'.op = "guarded" =>
        \E before \in {rollover(call_timestamps, alert_sent, daily_alert_active, now).ts} :
            /\ last'.api = "ok" => call_timestamps' = Append(before, now)
            /\ last'.api # "ok" => call_timestamps' = before]_vars

\* What holds of C27: the guarded functions that have a record_call() add
\* exactly one record per successful request, and no call adds a record
\* without one.
RecordingFunctionsRecordOnce ==
    [][last'.op = "guarded" =>
        \E before \in {rollover(call_timestamps, alert_sent, daily_alert_active, now).ts} :
            /\ (last'.api = "ok" /\ last'.fn # "get_current_weather")
                    => call_timestamps' = Append(before, now)
            /\ last'.api # "ok" => call_timestamps' = before]_vars

\* The marker file names the current day.
MarkedToday == flag_file.exists /\ flag_file.data = strftime_date(now)

\* C28 (one digest marker for all limiters): once the marker names the
\* current day, whichever instance wrote it, a record_call() of any
\* instance sends no digest and leaves the marker as it is, even when that
\* instance's usage has crossed 50% and it has sent no digest that day.
C28_SharedDigestMarker ==
    [][(last'.op \in {"record_call", "other_record_call"} /\ MarkedToday)
            => (last'.digest = "none" /\ flag_file' = flag_file)]_vars

\* This limiter's call is accepted with the digest switched on, it has sent
\* no digest today, and none is sent: the marker is another instance's.
C28_Witness ==
    /\ last.op = "record_call" /\ last.ret
    /\ daily_alert_active /\ digest_calls = 0
    /\ last.digest = "none"
    /\ MarkedToday

\* The ledger file holds exactly the ledger in memory.
LedgerPersisted ==
    /\ load_raises(ledger_file) = "none"
    /\ load(ledger_file) = call_timestamps

\* C29 (persist before notify): a caller that has reached the notification
\* blocks of record_call() has its record in the ledger file already; the
\* notification blocks change neither ledger nor file, whether they return
\* or raise; and a process that dies while a caller is in them restarts
\* with the same ledger, the call counted.
C29_PersistBeforeNotify ==
    /\ []((\E t \in Callers : pc[t] = Saved)
            => (LedgerPersisted /\ call_timestamps # <<>>))
    /\ [][((\E t \in Callers : pc[t] = Saved) /\ last'.op \in {"record_call", "restart"})
            => (call_timestamps' = call_timestamps /\ ledger_file' = ledger_file
                /\ accepted' = accepted /\ LedgerPersisted')]_vars

\* A notification has raised ValueError and the call it belongs to is in
\* the file.
C29_Witness ==
    /\ last.op = "record_call" /\ last.raised = "ValueError"
    /\ call_timestamps # <<>>
    /\ LedgerPersisted

\* C30 (alert_sent lives only in memory): a restart leaves alert_sent False
\* even when the process that ended had sent this month's alert, and the
\* first accepted record_call() of the new process that ends at or above
\* alert_threshold invokes send_alert again.
C30_AlertSentOnlyInMemory ==
    /\ [](last.op = "restart" => ~alert_sent)
    /\ [][(last.op = "restart" /\ last.lost_alert
            /\ last'.op = "record_call" /\ accepted' = accepted + 1
            /\ RatioReached(alert_threshold)')
                => last'.alert # "none"]_vars

\* What holds of C30: the flag is lost, and that first call invokes
\* send_alert again unless its digest raised before the alert block.
AlertRepeatedUnlessDigestRaised ==
    /\ [](last.op = "restart" => ~alert_sent)
    /\ [][(last.op = "restart" /\ last.lost_alert
            /\ last'.op = "record_call" /\ accepted' = accepted + 1
            /\ RatioReached(alert_threshold)')
                => (last'.alert # "none" \/ last'.digest = "raised")]_vars

====
